---- MODULE Spec2Model ----
(***************************************************************************)
(* Capture-correlation layer of RustPqcTracer (src/src/main.rs).           *)
(*                                                                         *)
(* One TlsAwareClient owns the registry slot `active_capture` (an          *)
(* Arc<Mutex<Option<Arc<Mutex<Captured>>>>>) and one pooled transport.     *)
(* Every execute call is one process; every connection of the transport    *)
(* runs the session-store callbacks of CapturingSessionStore as a process  *)
(* of its own, for as long as the connection is open.  The two Mutex kinds *)
(* are modelled with their holders, so that a step is one critical section *)
(* entry (with the work done under the lock) or one lock release.          *)
(* Calls are numbered in the order in which they are started, connections  *)
(* in the order in which they are opened, hosts in the order in which they *)
(* are first addressed.                                                    *)
(***************************************************************************)
EXTENDS Naturals, Sequences, FiniteSets

\* Bounds of the model.
NReq == 2          \* execute calls issued on the one client
NConn == 2         \* connections the transport opens over the life of the client

Req == 1..NReq
\* Hosts the requests and their redirects address, numbered in the order of
\* their first use.
Host == 1..NReq
Conn == 1..NConn

VARIABLES
    active_capture,  \* the registry slot: 0 is None, r is Some(Arc of call r's Captured)
    captured,        \* captured[r]: the Captured record allocated by call r
    pc,              \* pc[r]: position of call r inside execute
    host,            \* host[r]: host of call r's request (0 before the call starts)
    result,          \* result[r]: what call r returned
    regLock,         \* holder of the Mutex around the slot
    recLock,         \* recLock[r]: holder of the Mutex around captured[r]
    conn,            \* conn[k]: the k-th connection opened by the transport
    cb               \* cb[k]: the sink callback running on connection k

vars == <<active_capture, captured, pc, host, result, regLock, recLock, conn, cb>>

----------------------------------------------------------------------------
\* Option<T>: None, Some(v).
None == <<>>
Some(v) == <<v>>

\* Captured::default(): both fields None.
CapturedDefault == [group |-> None, cipher |-> None]

\* Lock holders.
Free == <<"free", 0>>
Exec(r) == <<"exec", r>>
Sink(c) == <<"sink", c>>
Holders == {Free} \cup {Exec(r) : r \in Req} \cup {Sink(k) : k \in Conn}

\* format!("{:?}", group) of a rustls NamedGroup (given by its code point).
DebugNamedGroup(g) ==
    CASE g = 23 -> "secp256r1"
      [] g = 24 -> "secp384r1"
      [] g = 29 -> "X25519"
      [] g = 4588 -> "X25519MLKEM768"
      [] OTHER -> "Unknown"

\* format!("{:?}", value.suite().common.suite) of a TLS 1.3 CipherSuite.
DebugCipherSuite(s) ==
    CASE s = 4865 -> "TLS13_AES_128_GCM_SHA256"
      [] s = 4866 -> "TLS13_AES_256_GCM_SHA384"
      [] s = 4867 -> "TLS13_CHACHA20_POLY1305_SHA256"
      [] OTHER -> "Unknown"

\* What a handshake with host h negotiates: the `group` argument of
\* set_kx_hint and the suite of the `value` argument of insert_tls13_ticket.
NegotiatedGroup(h) ==
    CASE h = 1 -> 4588
      [] h = 2 -> 29
      [] h = 3 -> 23
      [] OTHER -> 24

NegotiatedSuite(h) ==
    CASE h = 1 -> 4865
      [] h = 2 -> 4866
      [] OTHER -> 4867

\* Results of execute: Result<TlsResponse, reqwest::Error>.
Pending == [kind |-> "Pending", group |-> None, cipher |-> None]
Err == [kind |-> "Err", group |-> None, cipher |-> None]
TlsResponse(state) == [kind |-> "Ok", group |-> state.group, cipher |-> state.cipher]

\* Connections and callbacks.
\* conn.hs is how far the connection has got: "none" (not opened), "hello"
\* (TLS handshake begun, ServerHello not yet handled), "kx" (ServerHello of
\* TLS 1.3 handled: set_kx_hint has returned), "rm12" (remove_tls12_session has
\* returned, the TLS 1.3 handshake is not yet complete), "tls13" (TLS 1.3
\* handshake complete), "sh12" (ServerHello of TLS 1.2 handled: no
\* set_kx_hint), "set12" (set_tls12_session has returned, the TLS 1.2
\* handshake is not yet complete), "tls12" (TLS 1.2 handshake complete),
\* "plain" (no TLS), "closed".  conn.host: the host it connects to; conn.opener: the call
\* during which it was opened; conn.user: the call it serves now (0: idle in
\* the pool).  conn.resume: what the store answered when the handshake asked
\* it for resumption data (nothing is asked where no handshake is done).
NotAsked == [kx_hint |-> "not asked", tls12 |-> "not asked", tls13 |-> "not asked"]
NoConn == [hs |-> "none", host |-> 0, opener |-> 0, user |-> 0, resume |-> NotAsked]
CbIdle == [pc |-> "idle", slot |-> 0]

\* The connection can carry a request: its handshake, if it has one, is complete.
Established(k) == conn[k].hs \in {"tls13", "tls12", "plain"}
\* The connection serving call r (0: none).
Cur(r) == IF \E k \in Conn : conn[k].user = r
          THEN CHOOSE k \in Conn : conn[k].user = r
          ELSE 0
\* The next connection to be opened (connections are numbered as they open).
Unopened(k) == conn[k].hs = "none" /\ \A j \in Conn : j < k => conn[j].hs # "none"
HostUsed(g) == (\E q \in Req : host[q] = g) \/ (\E k \in Conn : conn[k].host = g)

Terminal == {"done", "failed", "cancelled"}
InFlight(r) == pc[r] \notin Terminal \cup {"idle"}

\* The read callbacks of CapturingSessionStore, on a store whose `active`
\* field holds `active`: kx_hint, tls12_session, take_tls13_ticket.
KxHint(active) == None
Tls12Session(active) == None
TakeTls13Ticket(active) == None

----------------------------------------------------------------------------
Init ==
    /\ active_capture = 0
    /\ captured = [r \in Req |-> CapturedDefault]
    /\ pc = [r \in Req |-> "idle"]
    /\ host = [r \in Req |-> 0]
    /\ result = [r \in Req |-> Pending]
    /\ regLock = Free
    /\ recLock = [r \in Req |-> Free]
    /\ conn = [k \in Conn |-> NoConn]
    /\ cb = [k \in Conn |-> CbIdle]

----------------------------------------------------------------------------
\* TlsAwareClient::execute

\* An activation that installs its record only into an empty slot.
ExecActivate_KeepOccupied(r, h) ==
    /\ pc[r] = "idle"
    /\ \A q \in Req : q < r => pc[q] # "idle"
    /\ \A g \in Host : g < h => HostUsed(g)
    /\ regLock = Free
    /\ host' = [host EXCEPT ![r] = h]
    /\ captured' = [captured EXCEPT ![r] = CapturedDefault]
    /\ regLock' = Exec(r)
    /\ active_capture' = IF active_capture = 0 THEN r ELSE active_capture
    /\ pc' = [pc EXCEPT ![r] = "activated"]
    /\ UNCHANGED <<result, recLock, conn, cb>>

\* 1. let captured = Arc::new(Mutex::new(Captured::default()));
\* 2. let mut active = self.active_capture.lock().unwrap(); *active = Some(captured.clone());
\* The call is for a request to host h; call r is the r-th call started and
\* host h the h-th host addressed.
ExecActivate(r, h) ==
    /\ pc[r] = "idle"
    /\ \A q \in Req : q < r => pc[q] # "idle"
    /\ \A g \in Host : g < h => HostUsed(g)
    /\ regLock = Free
    /\ host' = [host EXCEPT ![r] = h]
    /\ captured' = [captured EXCEPT ![r] = CapturedDefault]
    /\ regLock' = Exec(r)
    /\ active_capture' = r
    /\ pc' = [pc EXCEPT ![r] = "activated"]
    /\ UNCHANGED <<result, recLock, conn, cb>>

\* A guard that stays alive across the .await.
ExecActivateRelease_KeepLock(r) ==
    /\ pc[r] = "activated"
    /\ pc' = [pc EXCEPT ![r] = "await"]
    /\ UNCHANGED <<active_capture, captured, host, result, regLock, recLock, conn, cb>>

\* End of the block of step 2 (the guard is dropped), then the transport call
\* is dispatched and execute suspends at the .await.
ExecActivateRelease(r) ==
    /\ pc[r] = "activated"
    /\ regLock' = Free
    /\ pc' = [pc EXCEPT ![r] = "await"]
    /\ UNCHANGED <<active_capture, captured, host, result, recLock, conn, cb>>

\* A step 4 that takes the lock and forgets to clear the slot.
ExecDeactivate_NoClear(r) ==
    /\ pc[r] = "deactivate"
    /\ regLock = Free
    /\ regLock' = Exec(r)
    /\ pc' = [pc EXCEPT ![r] = "deactivated"]
    /\ UNCHANGED <<active_capture, captured, host, result, recLock, conn, cb>>

\* 4. let mut active = self.active_capture.lock().unwrap(); *active = None;
ExecDeactivate(r) ==
    /\ pc[r] = "deactivate"
    /\ regLock = Free
    /\ regLock' = Exec(r)
    /\ active_capture' = 0
    /\ pc' = [pc EXCEPT ![r] = "deactivated"]
    /\ UNCHANGED <<captured, host, result, recLock, conn, cb>>

ExecDeactivateRelease(r) ==
    /\ pc[r] = "deactivated"
    /\ regLock' = Free
    /\ pc' = [pc EXCEPT ![r] = "read"]
    /\ UNCHANGED <<active_capture, captured, host, result, recLock, conn, cb>>

\* A step 5 that fills an empty group with the placeholder main prints.
ExecRead_Invent(r) ==
    /\ pc[r] = "read"
    /\ recLock[r] = Free
    /\ recLock' = [recLock EXCEPT ![r] = Exec(r)]
    /\ result' = [result EXCEPT ![r] =
                     [kind |-> "Ok",
                      group |-> IF captured[r].group = None
                                THEN Some("Not available") ELSE captured[r].group,
                      cipher |-> captured[r].cipher]]
    /\ pc' = [pc EXCEPT ![r] = "reading"]
    /\ UNCHANGED <<active_capture, captured, host, regLock, conn, cb>>

\* 5. let state = captured.lock().unwrap(); Ok(TlsResponse { .. })
ExecRead(r) ==
    /\ pc[r] = "read"
    /\ recLock[r] = Free
    /\ recLock' = [recLock EXCEPT ![r] = Exec(r)]
    /\ result' = [result EXCEPT ![r] = TlsResponse(captured[r])]
    /\ pc' = [pc EXCEPT ![r] = "reading"]
    /\ UNCHANGED <<active_capture, captured, host, regLock, conn, cb>>

\* execute returns: `state` is dropped.
ExecReturn(r) ==
    /\ pc[r] = "reading"
    /\ recLock' = [recLock EXCEPT ![r] = Free]
    /\ pc' = [pc EXCEPT ![r] = "done"]
    /\ UNCHANGED <<active_capture, captured, host, result, regLock, conn, cb>>

\* What becomes of the connection serving call r when the call ends without a
\* response: one still in its handshake is closed, an established one stays
\* open in the pool.
Abandoned(r) ==
    [k \in Conn |->
        IF conn[k].user # r THEN conn[k]
        ELSE IF Established(k) THEN [conn[k] EXCEPT !.user = 0]
        ELSE [NoConn EXCEPT !.hs = "closed", !.opener = conn[k].opener]]

\* The caller drops the future while it is suspended at the .await: nothing
\* of execute after the .await runs, and the transport call is dropped with it.
ExecCancel(r) ==
    /\ pc[r] = "await"
    /\ Cur(r) # 0 => (Established(Cur(r)) \/ cb[Cur(r)].pc = "idle")
    /\ pc' = [pc EXCEPT ![r] = "cancelled"]
    /\ conn' = Abandoned(r)
    /\ UNCHANGED <<active_capture, captured, host, result, regLock, recLock, cb>>

----------------------------------------------------------------------------
\* 3. self.client.execute(request).await -- the pooled transport.
\* While call r is suspended the transport serves it on a connection: an idle
\* pooled one, or a new one.  A response that redirects makes the transport
\* go on, inside the same call, with a connection to the host it is sent to.
\* A TLS connection asks the store for resumption data when its handshake
\* begins; a TLS 1.3 handshake fires set_kx_hint once, when its ServerHello is
\* handled, and remove_tls12_session once the rest of the server's flight is
\* handled, and completes after that; a TLS 1.2 handshake fires neither, and
\* may fire set_tls12_session before it completes; a handshake may fail as
\* long as it is not complete, also after any of these callbacks.
\* insert_tls13_ticket fires whenever a TLS 1.3 connection reads a ticket,
\* after its handshake, for as long as the connection is open, whichever call
\* is suspended then, or none.

\* A connection opened during call r to host h, with TLS or without.
Opened(r, h, tls) ==
    [hs |-> IF tls THEN "hello" ELSE "plain",
     host |-> h, opener |-> r, user |-> r,
     resume |-> IF tls
                THEN [kx_hint |-> KxHint(active_capture),
                      tls12 |-> Tls12Session(active_capture),
                      tls13 |-> TakeTls13Ticket(active_capture)]
                ELSE NotAsked]

\* The request is served on an idle pooled connection to its host: no handshake.
TransportReuse(r, k) ==
    /\ pc[r] = "await"
    /\ Cur(r) = 0
    /\ Established(k) /\ conn[k].user = 0
    /\ conn[k].host = host[r]
    /\ conn' = [conn EXCEPT ![k].user = r]
    /\ UNCHANGED <<active_capture, captured, pc, host, result, regLock, recLock, cb>>

\* The transport opens a new connection to the host of the request.
TransportConnect(r, k, tls) ==
    /\ pc[r] = "await"
    /\ Cur(r) = 0
    /\ Unopened(k)
    /\ conn' = [conn EXCEPT ![k] = Opened(r, host[r], tls)]
    /\ UNCHANGED <<active_capture, captured, pc, host, result, regLock, recLock, cb>>

\* The response on the connection of call r redirects to host h: that
\* connection goes back to the pool and a new one is opened to h.
TransportRedirect(r, k, h, tls) ==
    /\ pc[r] = "await"
    /\ Cur(r) # 0 /\ Established(Cur(r))
    /\ conn[Cur(r)].host # h
    /\ \A g \in Host : g < h => HostUsed(g)
    /\ Unopened(k)
    /\ conn' = [conn EXCEPT ![Cur(r)].user = 0, ![k] = Opened(r, h, tls)]
    /\ UNCHANGED <<active_capture, captured, pc, host, result, regLock, recLock, cb>>

\* The response redirects to a host with an idle pooled connection.
TransportRedirectReuse(r, k) ==
    /\ pc[r] = "await"
    /\ Cur(r) # 0 /\ Established(Cur(r))
    /\ Established(k) /\ conn[k].user = 0
    /\ conn[k].host # conn[Cur(r)].host
    /\ conn' = [conn EXCEPT ![Cur(r)].user = 0, ![k].user = r]
    /\ UNCHANGED <<active_capture, captured, pc, host, result, regLock, recLock, cb>>

\* The server of connection k answers the ClientHello with TLS 1.2: the store
\* is not told a key-exchange group.
ServerHelloTls12(k) ==
    /\ conn[k].hs = "hello"
    /\ cb[k].pc = "idle"
    /\ conn' = [conn EXCEPT ![k].hs = "sh12"]
    /\ UNCHANGED <<active_capture, captured, pc, host, result, regLock, recLock, cb>>

\* The TLS 1.2 handshake of connection k completes, whether or not the server
\* gave a session to store.
HandshakeTls12(k) ==
    /\ conn[k].hs \in {"sh12", "set12"}
    /\ conn' = [conn EXCEPT ![k].hs = "tls12"]
    /\ UNCHANGED <<active_capture, captured, pc, host, result, regLock, recLock, cb>>

\* The TLS 1.3 handshake of connection k completes: the store has been told
\* the group and asked to remove the TLS 1.2 session, and the last checks of
\* the handshake have passed.
HandshakeTls13(k) ==
    /\ conn[k].hs = "rm12"
    /\ conn' = [conn EXCEPT ![k].hs = "tls13"]
    /\ UNCHANGED <<active_capture, captured, pc, host, result, regLock, recLock, cb>>

\* The transport call resolves with a response; the connection goes back to the pool.
TransportOk(r) ==
    /\ pc[r] = "await"
    /\ Cur(r) # 0 /\ Established(Cur(r))
    /\ conn' = [conn EXCEPT ![Cur(r)].user = 0]
    /\ pc' = [pc EXCEPT ![r] = "deactivate"]
    /\ UNCHANGED <<active_capture, captured, host, result, regLock, recLock, cb>>

\* An error path that reports what the callbacks had written so far.
TransportErr_PartialData(r) ==
    /\ pc[r] = "await"
    /\ Cur(r) # 0 => (Established(Cur(r)) \/ cb[Cur(r)].pc = "idle")
    /\ result' = [result EXCEPT ![r] =
                     [Err EXCEPT !.group = captured[r].group, !.cipher = captured[r].cipher]]
    /\ pc' = [pc EXCEPT ![r] = "failed"]
    /\ conn' = Abandoned(r)
    /\ UNCHANGED <<active_capture, captured, host, regLock, recLock, cb>>

\* The transport call resolves with an error, before any connection was
\* made, during a handshake or after it: `?` returns it from execute.
TransportErr(r) ==
    /\ pc[r] = "await"
    /\ Cur(r) # 0 => (Established(Cur(r)) \/ cb[Cur(r)].pc = "idle")
    /\ result' = [result EXCEPT ![r] = Err]
    /\ pc' = [pc EXCEPT ![r] = "failed"]
    /\ conn' = Abandoned(r)
    /\ UNCHANGED <<active_capture, captured, host, regLock, recLock, cb>>

----------------------------------------------------------------------------
\* CapturingSessionStore::set_kx_hint on connection k.

\* let slot = self.active.lock().unwrap().clone();
SetKxHintLock(k) ==
    /\ conn[k].hs = "hello"
    /\ cb[k].pc = "idle"
    /\ regLock = Free
    /\ regLock' = Sink(k)
    /\ cb' = [cb EXCEPT ![k] = [pc |-> "kx_locked", slot |-> active_capture]]
    /\ UNCHANGED <<active_capture, captured, pc, host, result, recLock, conn>>

\* A registry guard bound to a variable: it stays alive while the record is locked.
SetKxHintUnlock_KeepLock(k) ==
    /\ cb[k].pc = "kx_locked"
    /\ cb' = [cb EXCEPT ![k].pc = "kx_slot"]
    /\ UNCHANGED <<active_capture, captured, pc, host, result, regLock, recLock, conn>>

\* The temporary guard is dropped at the end of the statement.
SetKxHintUnlock(k) ==
    /\ cb[k].pc = "kx_locked"
    /\ regLock' = Free
    /\ cb' = [cb EXCEPT ![k].pc = "kx_slot"]
    /\ UNCHANGED <<active_capture, captured, pc, host, result, recLock, conn>>

\* captured.lock().unwrap().group = Some(format!("{:?}", group));
SetGroup(state, group) == [state EXCEPT !.group = Some(DebugNamedGroup(group))]

\* A handler that, finding the slot empty, falls back to the record of the
\* call its connection was opened for.
SetKxHintWrite_FallbackOwn(k) ==
    /\ cb[k].pc = "kx_slot"
    /\ IF cb[k].slot = 0
       THEN /\ cb' = [cb EXCEPT ![k] = CbIdle]
            /\ conn' = [conn EXCEPT ![k].hs = "kx"]
            /\ captured' = [captured EXCEPT ![conn[k].opener] =
                               SetGroup(@, NegotiatedGroup(conn[k].host))]
            /\ UNCHANGED recLock
       ELSE /\ recLock[cb[k].slot] = Free
            /\ recLock' = [recLock EXCEPT ![cb[k].slot] = Sink(k)]
            /\ captured' = [captured EXCEPT ![cb[k].slot] =
                               SetGroup(@, NegotiatedGroup(conn[k].host))]
            /\ cb' = [cb EXCEPT ![k].pc = "kx_write"]
            /\ UNCHANGED conn
    /\ UNCHANGED <<active_capture, pc, host, result, regLock>>

\* if let Some(captured) = slot { .. }
SetKxHintWrite(k) ==
    /\ cb[k].pc = "kx_slot"
    /\ IF cb[k].slot = 0
       THEN /\ cb' = [cb EXCEPT ![k] = CbIdle]
            /\ conn' = [conn EXCEPT ![k].hs = "kx"]
            /\ UNCHANGED <<captured, recLock>>
       ELSE /\ recLock[cb[k].slot] = Free
            /\ recLock' = [recLock EXCEPT ![cb[k].slot] = Sink(k)]
            /\ captured' = [captured EXCEPT ![cb[k].slot] =
                               SetGroup(@, NegotiatedGroup(conn[k].host))]
            /\ cb' = [cb EXCEPT ![k].pc = "kx_write"]
            /\ UNCHANGED conn
    /\ UNCHANGED <<active_capture, pc, host, result, regLock>>

\* The record guard is dropped; set_kx_hint returns.
SetKxHintReturn(k) ==
    /\ cb[k].pc = "kx_write"
    /\ recLock' = [recLock EXCEPT ![cb[k].slot] = Free]
    /\ cb' = [cb EXCEPT ![k] = CbIdle]
    /\ conn' = [conn EXCEPT ![k].hs = "kx"]
    /\ UNCHANGED <<active_capture, captured, pc, host, result, regLock>>

----------------------------------------------------------------------------
\* CapturingSessionStore::insert_tls13_ticket on connection k: the connection
\* has read a ticket.

\* let slot = self.active.lock().unwrap().clone();
InsertTicketLock(k) ==
    /\ conn[k].hs = "tls13"
    /\ cb[k].pc = "idle"
    /\ regLock = Free
    /\ regLock' = Sink(k)
    /\ cb' = [cb EXCEPT ![k] = [pc |-> "tk_locked", slot |-> active_capture]]
    /\ UNCHANGED <<active_capture, captured, pc, host, result, recLock, conn>>

InsertTicketUnlock(k) ==
    /\ cb[k].pc = "tk_locked"
    /\ regLock' = Free
    /\ cb' = [cb EXCEPT ![k].pc = "tk_slot"]
    /\ UNCHANGED <<active_capture, captured, pc, host, result, recLock, conn>>

\* A ticket handler without the is_none() test: every ticket overwrites.
SetCipher_Overwrite(state, suite) == [state EXCEPT !.cipher = Some(DebugCipherSuite(suite))]

\* if c.cipher.is_none() { c.cipher = Some(format!("{:?}", value.suite().common.suite)); }
SetCipher(state, suite) ==
    IF state.cipher = None
    THEN [state EXCEPT !.cipher = Some(DebugCipherSuite(suite))]
    ELSE state

\* if let Some(captured) = slot { let mut c = captured.lock().unwrap(); .. }
InsertTicketWrite(k) ==
    /\ cb[k].pc = "tk_slot"
    /\ IF cb[k].slot = 0
       THEN /\ cb' = [cb EXCEPT ![k] = CbIdle]
            /\ UNCHANGED <<captured, recLock>>
       ELSE /\ recLock[cb[k].slot] = Free
            /\ recLock' = [recLock EXCEPT ![cb[k].slot] = Sink(k)]
            /\ captured' = [captured EXCEPT ![cb[k].slot] =
                               SetCipher(@, NegotiatedSuite(conn[k].host))]
            /\ cb' = [cb EXCEPT ![k].pc = "tk_write"]
    /\ UNCHANGED <<active_capture, pc, host, result, regLock, conn>>

\* The record guard `c` is dropped; insert_tls13_ticket returns.
InsertTicketReturn(k) ==
    /\ cb[k].pc = "tk_write"
    /\ recLock' = [recLock EXCEPT ![cb[k].slot] = Free]
    /\ cb' = [cb EXCEPT ![k] = CbIdle]
    /\ UNCHANGED <<active_capture, captured, pc, host, result, regLock, conn>>

----------------------------------------------------------------------------
\* The TLS 1.2 callbacks of CapturingSessionStore on connection k.

\* A store that records a marker for the TLS 1.2 session in the current Captured.
SetTls12Session_Capture(k) ==
    /\ conn[k].hs = "sh12"
    /\ conn' = [conn EXCEPT ![k].hs = "set12"]
    /\ captured' = IF active_capture = 0
                   THEN captured
                   ELSE [captured EXCEPT ![active_capture].cipher = Some("TLS12")]
    /\ UNCHANGED <<active_capture, pc, host, result, regLock, recLock, cb>>

\* fn set_tls12_session(&self, _server_name, _value) {}
\* Called near the end of a TLS 1.2 handshake whose server gave a session to
\* store.  The body is empty: nothing of the client changes, the handshake
\* goes on from the return of the callback.
SetTls12Session(k) ==
    /\ conn[k].hs = "sh12"
    /\ conn' = [conn EXCEPT ![k].hs = "set12"]
    /\ UNCHANGED <<active_capture, captured, pc, host, result, regLock, recLock, cb>>

\* fn remove_tls12_session(&self, _server_name) {}
\* Called in every TLS 1.3 handshake once the rest of the server's flight is
\* handled.  The body is empty: nothing of the client changes, the handshake
\* goes on from the return of the callback and can still fail.
RemoveTls12Session(k) ==
    /\ conn[k].hs = "kx"
    /\ cb[k].pc = "idle"
    /\ conn' = [conn EXCEPT ![k].hs = "rm12"]
    /\ UNCHANGED <<active_capture, captured, pc, host, result, regLock, recLock, cb>>

----------------------------------------------------------------------------
\* Every step of call r but its start.
Step(r) ==
    \/ ExecActivateRelease(r)
    \/ ExecDeactivate(r)
    \/ ExecDeactivateRelease(r)
    \/ ExecRead(r)
    \/ ExecReturn(r)
    \/ ExecCancel(r)
    \/ \E k \in Conn : TransportReuse(r, k)
    \/ \E k \in Conn, tls \in BOOLEAN : TransportConnect(r, k, tls)
    \/ \E k \in Conn, h \in Host, tls \in BOOLEAN : TransportRedirect(r, k, h, tls)
    \/ \E k \in Conn : TransportRedirectReuse(r, k)
    \/ TransportOk(r)
    \/ TransportErr(r)

\* Every step of connection k: its handshake and its callbacks.
ConnStep(k) ==
    \/ ServerHelloTls12(k)
    \/ HandshakeTls12(k)
    \/ HandshakeTls13(k)
    \/ SetKxHintLock(k)
    \/ SetKxHintUnlock(k)
    \/ SetKxHintWrite(k)
    \/ SetKxHintReturn(k)
    \/ InsertTicketLock(k)
    \/ InsertTicketUnlock(k)
    \/ InsertTicketWrite(k)
    \/ InsertTicketReturn(k)
    \/ SetTls12Session(k)
    \/ RemoveTls12Session(k)

\* Calls may overlap freely on the one client.
Next ==
    \/ \E r \in Req, h \in Host : ExecActivate(r, h)
    \/ \E r \in Req : Step(r)
    \/ \E k \in Conn : ConnStep(k)

Spec == Init /\ [][Next]_vars

\* Single flight: the caller starts a call only when no other call is in flight.
ExecActivateSingle(r, h) ==
    /\ \A q \in Req : ~InFlight(q)
    /\ ExecActivate(r, h)

NextSingle ==
    \/ \E r \in Req, h \in Host : ExecActivateSingle(r, h)
    \/ \E r \in Req : Step(r)
    \/ \E k \in Conn : ConnStep(k)

SpecSingle == Init /\ [][NextSingle]_vars

----------------------------------------------------------------------------
\* The values the handshake with call r's own host reports, as recorded.
OwnGroup(r) == Some(DebugNamedGroup(NegotiatedGroup(host[r])))
OwnCipher(r) == Some(DebugCipherSuite(NegotiatedSuite(host[r])))

\* The values the handshake of connection k reports, as recorded.
ConnGroup(k) == Some(DebugNamedGroup(NegotiatedGroup(conn[k].host)))
ConnCipher(k) == Some(DebugCipherSuite(NegotiatedSuite(conn[k].host)))

\* No connection was opened during call r: no handshake occurred during it.
NoHandshake(r) == \A k \in Conn : conn[k].opener # r
\* Call r opened one connection, to the host of its request, with TLS 1.3.
OwnHandshake(r) ==
    /\ \E k \in Conn : conn[k].opener = r
    /\ \A k \in Conn : conn[k].opener = r => (conn[k].host = host[r] /\ conn[k].hs = "tls13")

\* C1: under overlapping calls, the group and cipher of every TlsResponse are
\* empty or the values of the handshake with that call's own host.
C1_NoCrossContamination ==
    \A r \in Req :
        result[r].kind = "Ok" =>
            /\ result[r].group \in {None, OwnGroup(r)}
            /\ result[r].cipher \in {None, OwnCipher(r)}

\* C2: at the moment execute returns a transport error the registry slot is None.
C2_SlotClearedOnFailure ==
    [][\A r \in Req :
          (pc[r] = "await" /\ pc'[r] = "failed") => active_capture' = 0]_vars

\* C3: whenever a handshake callback of a connection opened for call r reads
\* the slot, the slot holds the Captured of call r.
C3_NoCorrelationViolation ==
    \A k \in Conn :
        cb[k].pc \in {"kx_locked", "tk_locked"} => active_capture = conn[k].opener

\* C4: when a call installs its activation, the slot does not still hold the
\* activation of a call that was cancelled at the .await.
C4_CancelledClearedBeforeNext ==
    [][\A r \in Req :
          (pc[r] = "idle" /\ pc'[r] = "activated") =>
              \A q \in Req : pc[q] = "cancelled" => active_capture # q]_vars

\* C5: a successful call during which no handshake occurred returns
\* None/None; of two sequential successful calls to one host, the second
\* served on the pooled connection, the first response carries the group its
\* handshake reported (and no other cipher than its own) and the second
\* carries None/None.
C5_ReuseYieldsEmpty ==
    /\ \A r \in Req :
          (result[r].kind = "Ok" /\ NoHandshake(r)) =>
              (result[r].group = None /\ result[r].cipher = None)
    /\ \A r1, r2 \in Req :
          (/\ r1 < r2
           /\ result[r1].kind = "Ok" /\ result[r2].kind = "Ok"
           /\ host[r1] = host[r2]
           /\ OwnHandshake(r1) /\ NoHandshake(r2)) =>
              /\ result[r1].group = OwnGroup(r1)
              /\ result[r1].cipher \in {None, OwnCipher(r1)}
              /\ result[r2].group = None /\ result[r2].cipher = None

\* C6: of two sequential successful calls to two hosts, each with one fresh
\* TLS 1.3 handshake with its own host, each response carries its own host's
\* group and no other cipher than its own host's.
C6_SequentialCorrectness ==
    \A r1, r2 \in Req :
        (/\ r1 # r2
         /\ result[r1].kind = "Ok" /\ result[r2].kind = "Ok"
         /\ host[r1] # host[r2]
         /\ OwnHandshake(r1) /\ OwnHandshake(r2)) =>
            /\ result[r1].group = OwnGroup(r1) /\ result[r2].group = OwnGroup(r2)
            /\ result[r1].cipher \in {None, OwnCipher(r1)}
            /\ result[r2].cipher \in {None, OwnCipher(r2)}

\* C7: once the cipher of a Captured is set no step changes it, and the step
\* that sets it is an insert_tls13_ticket writing the suite of its own ticket:
\* the recorded cipher is that of the first ticket event on the record.
C7_FirstTicketWins ==
    [][\A r \in Req :
          /\ captured[r].cipher # None => captured'[r].cipher = captured[r].cipher
          /\ (captured[r].cipher = None /\ captured'[r].cipher # None) =>
                \E k \in Conn :
                    /\ cb[k].pc = "tk_slot" /\ cb[k].slot = r /\ cb'[k].pc = "tk_write"
                    /\ captured'[r].cipher = ConnCipher(k)]_vars

\* A later ticket, of another suite, has just been handled on a record whose
\* cipher was already set.
C7_Witness ==
    \E k \in Conn :
        /\ cb[k].pc = "tk_write"
        /\ captured[cb[k].slot].cipher # None
        /\ captured[cb[k].slot].cipher # ConnCipher(k)

\* Between its activation and its deactivation.
Executing(r) == pc[r] \in {"activated", "await", "deactivate"}

\* C8: a call that follows a failed one starts from an empty Captured of its
\* own, is the one the slot designates for as long as it executes (so that the
\* callbacks fired during it, and no others, write its record), and returns
\* the fields of that record: nothing of the failed call's record reaches it.
C8_FailureIsolation ==
    \A r1, r2 \in Req :
        (r1 < r2 /\ pc[r1] = "failed") =>
            /\ Executing(r2) => active_capture = r2
            /\ pc[r2] = "activated" => captured[r2] = CapturedDefault
            /\ pc[r2] = "reading" => result[r2] = TlsResponse(captured[r2])

\* The failed call had a handshake recorded in its Captured, which the slot
\* still held when the next call started; that call returned other values.
C8_Witness ==
    \E r1, r2 \in Req :
        /\ r1 < r2 /\ pc[r1] = "failed" /\ pc[r2] = "done"
        /\ captured[r1].group # None /\ captured[r1].cipher # None
        /\ result[r2].group # None
        /\ result[r2].group # captured[r1].group

\* C9: a call whose transport call failed returns the error and no TLS data,
\* whatever the callbacks had written into its Captured.
C9_ErrorWithoutTlsData ==
    \A r \in Req :
        /\ pc[r] = "failed" => result[r] = Err
        /\ result[r].kind = "Ok" => pc[r] \in {"reading", "done"}

C9_Witness ==
    \E r \in Req :
        /\ pc[r] = "failed"
        /\ captured[r].group # None /\ captured[r].cipher # None

\* C10: a call suspended at the .await holds no lock, and every lock is held
\* only inside the synchronous span that acquired it.
C10_NoLockAcrossAwait ==
    /\ \A r \in Req :
          pc[r] = "await" =>
              (regLock # Exec(r) /\ \A q \in Req : recLock[q] # Exec(r))
    /\ \A r \in Req :
          /\ regLock = Exec(r) => pc[r] \in {"activated", "deactivated"}
          /\ \A q \in Req : recLock[q] = Exec(r) => (q = r /\ pc[r] = "reading")
    /\ \A k \in Conn :
          /\ regLock = Sink(k) => cb[k].pc \in {"kx_locked", "tk_locked"}
          /\ \A q \in Req :
                recLock[q] = Sink(k) =>
                    (cb[k].pc \in {"kx_write", "tk_write"} /\ cb[k].slot = q)

\* One call is suspended at the .await while another call or a callback is
\* inside a critical section of the registry.
C10_Witness ==
    \E r \in Req :
        /\ pc[r] = "await"
        /\ \/ \E q \in Req : q # r /\ regLock = Exec(q)
           \/ \E k \in Conn : regLock = Sink(k)

\* Positions of execute at which the transport call of call r has resolved.
Resolved(r) == pc[r] \in {"deactivate", "deactivated", "read", "reading", "done", "failed"}

\* C11: the activation of a call is in place when its transport call is
\* dispatched; its deactivation has been done when it reads its Captured and
\* when it returns, on success and on failure alike.
C11_ActivateDispatchDeactivateRead ==
    [][\A r \in Req :
          /\ (pc[r] = "activated" /\ pc'[r] = "await") => active_capture = r
          /\ (pc[r] = "read" /\ pc'[r] = "reading") => active_capture # r
          /\ (pc[r] # pc'[r] /\ pc'[r] \in {"done", "failed"}) => active_capture' # r]_vars

\* C12: with at most one call in flight, the slot is non-empty exactly while
\* a call is between its activation and its deactivation, and then holds
\* that call's Captured.
C12_SlotMatchesExecutingCall ==
    /\ active_capture # 0 <=> \E r \in Req : Executing(r)
    /\ \A r \in Req : Executing(r) => active_capture = r

\* C13: a response with both fields set carries the group and the cipher of
\* one handshake (hence of one host).
C13_GroupAndCipherOfOneHandshake ==
    \A r \in Req :
        (result[r].kind = "Ok" /\ result[r].group # None /\ result[r].cipher # None) =>
            \E h \in Host :
                /\ result[r].group = Some(DebugNamedGroup(NegotiatedGroup(h)))
                /\ result[r].cipher = Some(DebugCipherSuite(NegotiatedSuite(h)))

\* C14: once the transport call of a call has resolved, no step writes into
\* that call's Captured.
C14_ReadOnlyAfterResolution ==
    [][\A r \in Req : Resolved(r) => captured'[r] = captured[r]]_vars

\* C15: no process holds the registry lock and a record lock at once; the
\* holder of a lock can always release it, and while a call is in flight
\* some step of a call or of a callback is possible (no deadlock).
C15_LockDisciplineNoDeadlock ==
    /\ \A r, q \in Req : ~(regLock = Exec(r) /\ recLock[q] = Exec(r))
    /\ \A k \in Conn, q \in Req : ~(regLock = Sink(k) /\ recLock[q] = Sink(k))
    /\ \A r \in Req :
          /\ regLock = Exec(r) =>
                ENABLED (ExecActivateRelease(r) \/ ExecDeactivateRelease(r))
          /\ \A q \in Req : recLock[q] = Exec(r) => ENABLED ExecReturn(r)
    /\ \A k \in Conn :
          /\ regLock = Sink(k) =>
                ENABLED (SetKxHintUnlock(k) \/ InsertTicketUnlock(k))
          /\ \A q \in Req :
                recLock[q] = Sink(k) =>
                    ENABLED (SetKxHintReturn(k) \/ InsertTicketReturn(k))
    /\ (\E r \in Req : InFlight(r)) =>
          ENABLED ((\E r \in Req : Step(r)) \/ (\E k \in Conn : ConnStep(k)))

\* A call waits for the lock of its own Captured while a callback writes
\* into it.
C15_Witness ==
    \E r \in Req, k \in Conn :
        /\ pc[r] = "read" /\ recLock[r] = Sink(k)

\* C16: a callback that found the slot empty changes no Captured; no step
\* of a callback changes the slot; the slot changes only in the activation
\* and the deactivation step of execute.
C16_SinkFrame ==
    [][/\ \A k \in Conn :
            (cb[k].pc \in {"kx_slot", "tk_slot"} /\ cb[k].slot = 0 /\ cb'[k] # cb[k]) =>
                captured' = captured
       /\ cb' # cb => active_capture' = active_capture
       /\ active_capture' # active_capture =>
            \E r \in Req :
                \/ pc[r] = "idle" /\ pc'[r] = "activated" /\ active_capture' = r
                \/ pc[r] = "deactivate" /\ pc'[r] = "deactivated" /\ active_capture' = 0]_vars

\* A callback has read the slot while it was empty.
C16_Witness ==
    \E k \in Conn : cb[k].pc \in {"kx_slot", "tk_slot"} /\ cb[k].slot = 0

\* C17: the Captured of a call starts empty at its activation; each of its
\* fields changes only in the write step of a callback that read the slot
\* after that activation, to the value that callback delivers; and the result
\* of a call is set only by its read step, to the fields of its Captured as
\* they are then (or to the error): execute invents no value.
C17_Provenance ==
    [][\A r \in Req :
          /\ (pc[r] = "idle" /\ pc'[r] # "idle") => captured'[r] = CapturedDefault
          /\ captured'[r].group # captured[r].group =>
                \E k \in Conn :
                    /\ pc[r] # "idle" /\ pc[r] = pc'[r]
                    /\ cb[k].pc = "kx_slot" /\ cb[k].slot = r /\ cb'[k].pc = "kx_write"
                    /\ captured'[r].group = ConnGroup(k)
          /\ captured'[r].cipher # captured[r].cipher =>
                \E k \in Conn :
                    /\ pc[r] # "idle" /\ pc[r] = pc'[r]
                    /\ cb[k].pc = "tk_slot" /\ cb[k].slot = r /\ cb'[k].pc = "tk_write"
                    /\ captured'[r].cipher = ConnCipher(k)
          /\ result'[r] # result[r] =>
                \/ /\ pc[r] = "read" /\ pc'[r] = "reading"
                   /\ result'[r].kind = "Ok"
                   /\ result'[r].group = captured[r].group
                   /\ result'[r].cipher = captured[r].cipher
                \/ pc[r] = "await" /\ pc'[r] = "failed" /\ result'[r] = Err]_vars

\* A response whose group was delivered by the callback of a connection to
\* another host than its request's, and one with no value at all.
C17_Witness ==
    \E r, q \in Req :
        /\ pc[r] = "done" /\ result[r].group # None /\ result[r].group # OwnGroup(r)
        /\ pc[q] = "done" /\ result[q].group = None

\* C18: when no call failed or was cancelled and every started call has
\* returned its TlsResponse, the slot is empty.
C18_QuiescentSlotEmpty ==
    (\A r \in Req : pc[r] \in {"idle", "done"}) => active_capture = 0

\* All calls have returned after having overlapped: the second activation
\* came while the first call was in flight.
C18_Witness ==
    /\ \A r \in Req : pc[r] = "done"
    /\ \E k \in Conn : conn[k].opener = 1 /\ conn[k].hs = "tls13"
    /\ result[1].group = None /\ result[1].cipher = None

\* C19: kx_hint, tls12_session and take_tls13_ticket answer None to every
\* handshake, whatever callbacks came before, and every step in which
\* set_tls12_session or remove_tls12_session is called and returns leaves the
\* slot and every Captured as they were.
C19_ResumptionNoOps ==
    [][/\ \A k \in Conn :
            conn'[k].hs \in {"hello", "kx", "rm12", "tls13", "sh12", "set12", "tls12"} =>
                conn'[k].resume = [kx_hint |-> None, tls12 |-> None, tls13 |-> None]
       /\ \A k \in Conn :
            (\/ conn[k].hs = "sh12" /\ conn'[k].hs = "set12"
             \/ conn[k].hs = "kx" /\ conn'[k].hs = "rm12") =>
                /\ active_capture' = active_capture
                /\ captured' = captured]_vars

\* An earlier TLS 1.3 handshake with a host has completed (remove_tls12_session
\* was called during it, after set_kx_hint had filled a Captured) and a ticket
\* was recorded; a later handshake with that host has asked the store, was
\* answered with TLS 1.2, and set_tls12_session has returned while the slot
\* holds the Captured of the call it serves.
C19_Witness ==
    \E j, k \in Conn :
        /\ j < k /\ conn[j].hs = "tls13" /\ conn[j].host = conn[k].host
        /\ \E q \in Req : result[q].kind = "Ok" /\ result[q].group # None
                                                  /\ result[q].cipher # None
        /\ conn[k].hs = "set12" /\ conn[k].user # 0
        /\ conn[k].resume.tls13 = None
        /\ active_capture = conn[k].user

TypeOK ==
    /\ active_capture \in 0..NReq
    /\ regLock \in Holders
    /\ \A r \in Req : recLock[r] \in Holders
    /\ \A k \in Conn : conn[k].user \in 0..NReq /\ conn[k].opener \in 0..NReq
    /\ \A k \in Conn : cb[k].slot \in 0..NReq

====
